---- MODULE Spec2Model ----
(***************************************************************************)
(* Model of maliput_integration's timed phase iteration:                   *)
(*   - ChronoTimer            (src/integration/chrono_timer.cc)            *)
(*   - DynamicEnvironmentHandler (dynamic_environment_handler.h)           *)
(*   - FixedPhaseIterationHandler (fixed_phase_iteration_handler.{h,cc})   *)
(* together with the part of the road network that Update() reads and      *)
(* writes: the phase ring book (ring ids, each ring's next-phase lists)    *)
(* and the ManualPhaseProvider's per-ring record.                          *)
(*                                                                         *)
(* Units.  The clock counts ticks; TicksPerMs ticks make one millisecond,  *)
(* so that duration_cast<milliseconds> truncates.  Elapsed() returns a     *)
(* double in seconds that is always a whole number of milliseconds divided *)
(* by 1000.; the model carries that value as the number of thousandths of  *)
(* a second, and phase_duration_ and last_elapsed_time_ in the same unit.  *)
(* Rounding of IEEE doubles is not modelled.                               *)
(*                                                                         *)
(* Assumptions on the road network (outside this repository): the phase    *)
(* provider is a ManualPhaseProvider (the dynamic_cast in Update()         *)
(* succeeds), and GetPhaseRings() lists each ring id once.                 *)
(***************************************************************************)
EXTENDS Integers, Sequences, FiniteSets, TLC

\* ------------------------------------------------------------------ bounds
\* Clock ticks per millisecond (sub-millisecond resolution of the clock).
TicksPerMs == 2
\* Last clock tick the model explores.
MaxClock == 8
\* Largest |phase_duration| passed to the constructor, in 1/1000 s.
MaxDuration == 1
\* Largest number of ticks the clock advances while Update() is running.
MaxCallTicks == 1
\* Milliseconds between two polls of Update() in the polling loop.
PollPeriod == 1
\* Largest number of Update() calls past the early return that are counted.
MaxCalls == 3

\* ------------------------------------------------------- road network data
NULL == "nullptr"

\* std::optional<T>: the empty sequence, or a sequence holding the value.
nullopt == <<>>
Some(x) == <<x>>
has_value(o) == o # <<>>
value(o) == o[1]

NoRecord == nullopt    \* GetPhase() result for an unregistered ring
NoNext == nullopt      \* PhaseProvider::Result::next without a value
NoDuration == nullopt  \* duration_until without a value

\* Mutant: the pass goes over the ring ids twice.
GetPhaseRings_Twice == <<"ringA", "ringB", "ringC", "ringA", "ringB", "ringC">>

NotRead == "<not read>"  \* a ring whose record an iteration of Main()'s loop did not get to

\* Mutant: the first ring id is listed a second time.
GetPhaseRings_Repeating == <<"ringA", "ringB", "ringC", "ringA">>

\* PhaseRingBook::GetPhaseRings(): the ring ids, in iteration order.
GetPhaseRings == <<"ringA", "ringB", "ringC">>

RingIds == {GetPhaseRings[i] : i \in DOMAIN GetPhaseRings}

Phases == {"AllGo", "AllStop", "Off"}

NextPhase(id, duration_until) == [id |-> id, duration_until |-> duration_until]

\* A ring that is one fixed cycle AllGo -> AllStop -> AllGo; Off is terminal.
CycleRing ==
  [p \in Phases |->
     CASE p = "AllGo" -> <<NextPhase("AllStop", Some(30))>>
       [] p = "AllStop" -> <<NextPhase("AllGo", Some(45))>>
       [] OTHER -> <<>>]

\* A ring with branching: more than one reachable-next phase, and an edge
\* into the terminal phase Off.
BranchRing ==
  [p \in Phases |->
     CASE p = "AllGo" -> <<NextPhase("Off", NoDuration), NextPhase("AllStop", Some(30))>>
       [] p = "AllStop" -> <<NextPhase("AllGo", Some(60)), NextPhase("Off", Some(45))>>
       [] OTHER -> <<>>]

\* The rings of the book: PhaseRingBook::GetPhaseRing(id), as the ring's
\* next_phases() map.
GetPhaseRing ==
  [r \in RingIds |-> IF r = "ringB" THEN BranchRing ELSE CycleRing]

VARIABLES
  now,          \* std::chrono::high_resolution_clock::now(), in ticks
  start_,       \* ChronoTimer::start_, in ticks
  handler,      \* the FixedPhaseIterationHandler object, if one was built
  ring_book,    \* ring id -> that ring's next-phases map
  provider,     \* ManualPhaseProvider: ring id -> record or NoRecord
  read,         \* what the caller's latest Elapsed() since the last Reset() returned
  reset_at,     \* the clock when the timer was built or last Reset(), in ticks
  lastOp,       \* the last call made and what it did
  tool,         \* the last call of a function of tools.h, with what it returned
  count,        \* Update() calls past the early return, and SetPhase calls per ring
  twin,         \* the handler of a second run: same timer readings and phase_duration, other duration_until values
  passes,       \* the timer readings of line 10 in the latest two Update() calls past the early return
  printed       \* what the latest iteration of Main()'s loop read of each ring's record, and how it ended

vars == <<now, start_, handler, ring_book, provider, read, reset_at, lastOp, tool, count, twin, passes, printed>>

\* ------------------------------------------------------------------ Timer
NoReading == nullopt

\* Mutant: only the millisecond digit of the difference is kept, so the value
\* wraps around.
DoElapsed_Wrapping(clock, start) == ((clock - start) \div TicksPerMs) % 2

\* ChronoTimer::DoElapsed(): (now() - start_) cast to whole milliseconds,
\* then / 1000. (kept as thousandths of a second).
DoElapsed(clock, start) == (clock - start) \div TicksPerMs

\* Timer::Elapsed() forwards to DoElapsed().
Elapsed(clock, start) == DoElapsed(clock, start)

\* Mutant: Reset() falls back to the epoch of the clock.
DoReset_Epoch(clock) == 0

\* ChronoTimer::DoReset(): start_ = now().
DoReset(clock) == clock

\* --------------------------------------------------------------- handlers
\* Mutant: the timer pointer is not checked.
DynamicEnvironmentHandler_NoTimerCheck(timer, road_network) ==
  IF road_network = NULL THEN "assertion_error" ELSE "ok"

\* DynamicEnvironmentHandler(timer, road_network): both pointers are stored,
\* then road_network_ and timer_ are checked in that order.
DynamicEnvironmentHandler(timer, road_network) ==
  IF road_network = NULL THEN "assertion_error"
  ELSE IF timer = NULL THEN "assertion_error"
  ELSE "ok"

\* Mutant: last_elapsed_time_ starts at 1.
FixedPhaseIterationHandler_LastOne(timer, road_network, phase_duration) ==
  [result |-> DynamicEnvironmentHandler(timer, road_network),
   object |-> [timer_ |-> timer, road_network_ |-> road_network,
               phase_duration_ |-> phase_duration, last_elapsed_time_ |-> 1]]

\* FixedPhaseIterationHandler(timer, road_network, phase_duration): the base
\* constructor runs, phase_duration_ is stored, the body is empty;
\* last_elapsed_time_{} is value-initialised to 0.
FixedPhaseIterationHandler(timer, road_network, phase_duration) ==
  [result |-> DynamicEnvironmentHandler(timer, road_network),
   object |-> [timer_ |-> timer, road_network_ |-> road_network,
               phase_duration_ |-> phase_duration, last_elapsed_time_ |-> 0]]

\* enum class DynamicEnvironmentHandlerType has the one enumerator
\* kFixedPhaseIterationHandler; "<other>" is any other value of the
\* underlying type.
kFixedPhaseIterationHandler == "kFixedPhaseIterationHandler"
DynamicEnvironmentHandlerType == {kFixedPhaseIterationHandler, "<other>"}

\* CreateDynamicEnvironmentHandler(type, args...): the switch on type
\* forwards the arguments to the FixedPhaseIterationHandler constructor, and
\* its default branch throws ("Unknown DynamicEnvironmentHandlerType value.").
CreateDynamicEnvironmentHandler(type, timer, road_network, phase_duration) ==
  IF type = kFixedPhaseIterationHandler
    THEN FixedPhaseIterationHandler(timer, road_network, phase_duration)
    ELSE [result |-> "assertion_error", object |-> nullopt]

\* Mutant: the call always goes on past the early return.
ThresholdCrossed_Always(elapsed, last_elapsed_time, phase_duration) == TRUE

\* Mutant: the reading is compared without subtracting last_elapsed_time_.
ThresholdCrossed_IgnoringLast(elapsed, last_elapsed_time, phase_duration) ==
  elapsed > phase_duration

\* Mutant: >= in place of >.
ThresholdCrossed_OrEqual(elapsed, last_elapsed_time, phase_duration) ==
  elapsed - last_elapsed_time >= phase_duration

\* Mutant: the duration_until of the first ring's pending-next phase, when
\* there is one, is the threshold.
Threshold_FromRing(this, prov) ==
  LET result == prov[GetPhaseRings[1]] IN
    IF /\ has_value(result)
       /\ has_value(value(result).next)
       /\ has_value(value(value(result).next).duration_until)
      THEN value(value(value(result).next).duration_until)
      ELSE this.phase_duration_

\* Update(), line 10: the threshold is the member phase_duration_; nothing
\* of the provider's records is read before the comparison.
Threshold(this, prov) == this.phase_duration_

\* Update(), line 10: the call goes on past the early return exactly when
\* timer_->Elapsed() - last_elapsed_time_ > phase_duration_.
ThresholdCrossed(elapsed, last_elapsed_time, phase_duration) ==
  elapsed - last_elapsed_time > phase_duration

\* ManualPhaseProvider::GetPhase(ring id) on the records `prov`.
GetPhase(prov, ring) == prov[ring]

\* Mutant: the record is written for every ring that has one.
SetPhase_EveryRing(prov, ring, phase, next_phase, duration_until) ==
  [r \in DOMAIN prov |->
     IF has_value(prov[r])
       THEN Some([state |-> phase,
                  next |-> Some([state |-> next_phase,
                                 duration_until |-> duration_until])])
       ELSE prov[r]]

\* Mutant: the ring's record is removed.
SetPhase_Erase(prov, ring, phase, next_phase, duration_until) ==
  [prov EXCEPT ![ring] = NoRecord]

\* Mutant: the record is written without a pending-next phase.
SetPhase_WithoutNext(prov, ring, phase, next_phase, duration_until) ==
  [prov EXCEPT ![ring] = Some([state |-> phase, next |-> NoNext])]

\* ManualPhaseProvider::SetPhase(ring id, phase, next phase, duration_until).
SetPhase(prov, ring, phase, next_phase, duration_until) ==
  [prov EXCEPT ![ring] =
     Some([state |-> phase,
           next |-> Some([state |-> next_phase,
                          duration_until |-> duration_until])])]

\* Mutant: a ring without a record is passed over.
RingDecision_SkipMissing(phase_provider_result) ==
  IF ~has_value(phase_provider_result) THEN "continue"
  ELSE IF ~has_value(value(phase_provider_result).next) THEN "continue"
  ELSE "set"

\* Update(), lines 19-24: what the loop does with a ring, given the
\* provider's record of it: no record fails MALIPUT_THROW_UNLESS, a record
\* without a pending next phase is passed over, any other is advanced.
RingDecision(phase_provider_result) ==
  IF ~has_value(phase_provider_result) THEN "throw"
  ELSE IF ~has_value(value(phase_provider_result).next) THEN "continue"
  ELSE "set"

\* Mutant: `break` in place of `continue`.
AfterSkip_Break(i) == Len(GetPhaseRings) + 1

\* Update(), lines 22-24: `continue` goes on with the ring after this one.
AfterSkip(i) == i + 1

\* Mutant: the loop is left after the first SetPhase.
AfterSet_Return(i) == Len(GetPhaseRings) + 1

\* Update(), lines 17 and 28-29: after SetPhase the loop goes on with the
\* ring after this one.
AfterSet(i) == i + 1

\* Mutant: the current phase is taken in place of the pending next phase.
NewPhaseId_Current(phase_provider_result) == value(phase_provider_result).state

\* Update(), line 26: the phase being entered is the pending next phase.
NewPhaseId(phase_provider_result) == value(value(phase_provider_result).next).state

\* Update(), line 27: ring->GetNextPhases(id) is next_phases_.at(id).
GetNextPhases(phase_ring, id) == phase_ring[id]

\* Mutant: the last entry of the list is taken.
Front_Back(next_phases) == next_phases[Len(next_phases)]

\* Update(), line 28: next_phases.front() of a non-empty vector.
Front(next_phases) == Head(next_phases)

\* What next_phases.front() may yield on an empty vector (undefined
\* behaviour): the call crashes, or it reads some NextPhase-shaped garbage.
GarbageNextPhases ==
  {NextPhase(id, NoDuration) : id \in Phases \cup {"<garbage>"}}

Outcome(prov, result, failedAt, sets) ==
  [provider |-> prov, result |-> result, failedAt |-> failedAt, sets |-> sets]

\* Update(), lines 17-29: the pass over the rings from position i on, with
\* the provider records `prov` and the rings `sets` already given to
\* SetPhase.  The set of outcomes the pass can have.
RECURSIVE RingLoop(_, _, _, _)
RingLoop(book, i, prov, sets) ==
  IF i > Len(GetPhaseRings) THEN {Outcome(prov, "advanced", 0, sets)}
  ELSE
    LET phase_ring_id == GetPhaseRings[i]
        phase_ring == book[phase_ring_id]
        phase_provider_result == GetPhase(prov, phase_ring_id)
        decision == RingDecision(phase_provider_result)
    IN
      IF decision = "throw"
        THEN {Outcome(prov, "assertion_error", i, sets)}
      ELSE IF decision = "continue"
        THEN RingLoop(book, AfterSkip(i), prov, sets)
      ELSE
        LET new_phase_id == NewPhaseId(phase_provider_result) IN
          IF new_phase_id \notin DOMAIN phase_ring
            THEN {Outcome(prov, "out_of_range", i, sets)}
          ELSE
            LET next_phases == GetNextPhases(phase_ring, new_phase_id)
                fronts == IF next_phases # <<>> THEN {Front(next_phases)}
                          ELSE GarbageNextPhases
            IN
              (IF next_phases = <<>>
                 THEN {Outcome(prov, "crash", i, sets)} ELSE {})
              \cup
              UNION {RingLoop(book, AfterSet(i),
                              SetPhase(prov, phase_ring_id, new_phase_id,
                                       f.id, f.duration_until),
                              Append(sets, phase_ring_id)) : f \in fronts}

\* Mutant: last_elapsed_time_ is assigned behind the loop, so only when the
\* pass `out` has completed.
AssignLastElapsedTime_AfterLoop(this, elapsed, out) ==
  IF out.result = "advanced" THEN [this EXCEPT !.last_elapsed_time_ = elapsed] ELSE this

\* Update(), line 13: last_elapsed_time_ = timer_->Elapsed(), ahead of the
\* loop, so whatever the pass `out` over the rings does afterwards.
AssignLastElapsedTime(this, elapsed, out) ==
  [this EXCEPT !.last_elapsed_time_ = elapsed]

\* Mutant: a pass that fails puts the records back as they were.
Commit_Rollback(before, out) ==
  IF out.result = "advanced" THEN out.provider ELSE before

\* Update(), line 28: SetPhase writes the provider in place, so whatever the
\* pass has written by the time it ends, normally or not, is what remains.
Commit(before, out) == out.provider

\* ---------------------------------------------------------------- tools
\* enum class MaliputImplementation; "<other>" is any other value of the
\* underlying type.
MaliputImplementation == {"kMalidrive", "kDragway", "kMultilane"}
ImplementationValues == MaliputImplementation \cup {"<other>"}

\* The conversions from MaliputImplementation to std::string.
maliput_impl_to_string ==
  [i \in MaliputImplementation |->
     CASE i = "kDragway" -> "dragway"
       [] i = "kMalidrive" -> "malidrive"
       [] i = "kMultilane" -> "multilane"]

\* The conversions from std::string to MaliputImplementation.
string_to_maliput_impl ==
  [n \in {"dragway", "malidrive", "multilane"} |->
     CASE n = "dragway" -> "kDragway"
       [] n = "malidrive" -> "kMalidrive"
       [] n = "multilane" -> "kMultilane"]

\* The strings a caller passes as --maliput_backend.
BackendNames == {"dragway", "malidrive", "multilane", "Dragway", "malidrive ", ""}

\* MaliputImplementationToString(): std::map::at, which throws
\* std::out_of_range for a key that is not in the map.
MaliputImplementationToString(maliput_impl) ==
  IF maliput_impl \in DOMAIN maliput_impl_to_string
    THEN [result |-> "ok", value |-> maliput_impl_to_string[maliput_impl]]
    ELSE [result |-> "out_of_range", value |-> ""]

\* StringToMaliputImplementation(): MALIPUT_DEMAND that the name is a key of
\* the map, then the mapped value.
StringToMaliputImplementation(maliput_impl) ==
  IF maliput_impl \notin DOMAIN string_to_maliput_impl
    THEN [result |-> "abort", value |-> ""]
    ELSE [result |-> "ok", value |-> string_to_maliput_impl[maliput_impl]]

\* The build properties, reduced to the fields the functions below test.
Files == {"", "a", "b"}
DragwayBuildProperties == [num_lanes : {1, 2}]
MultilaneBuildProperties == [yaml_file : Files]
MalidriveBuildProperties == [xodr_file_path : Files]

\* What a loader of maliput_multilane or maliput_malidrive does with the file
\* it is handed; the loaders are not part of this repository.
LoaderOutcomes == {"ok", "loader_error"}

Built(result, built_by, built_from, loaded) ==
  [result |-> result, built_by |-> built_by, built_from |-> built_from, loaded |-> loaded]

\* CreateDragwayRoadNetwork(): builds the dragway RoadGeometry and empty
\* books from the properties; no file is loaded.
CreateDragwayRoadNetwork(build_properties) ==
  Built("ok", "CreateDragwayRoadNetwork", build_properties, nullopt)

\* CreateMultilaneRoadNetwork(): MALIPUT_ABORT_MESSAGE when yaml_file is
\* empty, then the loaders are run on yaml_file.
CreateMultilaneRoadNetwork(build_properties, load) ==
  IF build_properties.yaml_file = ""
    THEN Built("abort", "CreateMultilaneRoadNetwork", build_properties, nullopt)
    ELSE Built(load, "CreateMultilaneRoadNetwork", build_properties,
               Some(build_properties.yaml_file))

\* CreateMalidriveRoadNetwork(): the RoadGeometryConfiguration is filled
\* from the properties, its opendrive_file being an optional initialised
\* from the string xodr_file_path; MALIPUT_ABORT_MESSAGE when that optional
\* has no value; then malidrive::loader::Load is run.
CreateMalidriveRoadNetwork(build_properties, load) ==
  LET opendrive_file == Some(build_properties.xodr_file_path) IN
    IF ~has_value(opendrive_file)
      THEN Built("abort", "CreateMalidriveRoadNetwork", build_properties, nullopt)
      ELSE Built(load, "CreateMalidriveRoadNetwork", build_properties, opendrive_file)

\* Mutant: an unknown implementation falls back to dragway.
LoadRoadNetwork_Fallback(maliput_implementation, dragway_build_properties, multilane_build_properties, malidrive_build_properties, load) ==
  CASE maliput_implementation = "kMultilane" ->
         CreateMultilaneRoadNetwork(multilane_build_properties, load)
    [] maliput_implementation = "kMalidrive" ->
         CreateMalidriveRoadNetwork(malidrive_build_properties, load)
    [] OTHER -> CreateDragwayRoadNetwork(dragway_build_properties)

\* LoadRoadNetwork(): the switch on maliput_implementation; its default
\* branch is MALIPUT_ABORT_MESSAGE.
LoadRoadNetwork(maliput_implementation, dragway_build_properties, multilane_build_properties, malidrive_build_properties, load) ==
  CASE maliput_implementation = "kDragway" ->
         CreateDragwayRoadNetwork(dragway_build_properties)
    [] maliput_implementation = "kMultilane" ->
         CreateMultilaneRoadNetwork(multilane_build_properties, load)
    [] maliput_implementation = "kMalidrive" ->
         CreateMalidriveRoadNetwork(malidrive_build_properties, load)
    [] OTHER -> Built("abort", "none", nullopt, nullopt)

\* A provider record: PhaseProvider::Result with the current phase and the
\* optional pending-next phase.
Record(p, n) == Some([state |-> p, next |-> n])

\* ------------------------------------------------------------ second run
\* Another choice of the optional duration_until of a next phase: present
\* where the first run has none, and absent where it has one.
TwinDuration(duration_until) ==
  IF has_value(duration_until) THEN NoDuration ELSE Some(0)

\* The provider records with the same phases and the other durations.
TwinProvider(prov) ==
  [r \in DOMAIN prov |->
     IF has_value(prov[r]) /\ has_value(value(prov[r]).next)
       THEN Record(value(prov[r]).state,
                   Some([state |-> value(value(prov[r]).next).state,
                         duration_until |->
                           TwinDuration(value(value(prov[r]).next).duration_until)]))
       ELSE prov[r]]

\* ------------------------------------------------------------- the calls
Op(name, result) ==
  [name |-> name, result |-> result, at |-> 0,
   reading |-> NoReading, reading2 |-> NoReading, prevRead |-> NoReading,
   failedAt |-> 0, sets |-> <<>>,
   prevProvider |-> <<>>, prevLast |-> 0,
   type |-> "none", timer |-> NULL, road_network |-> NULL, phase_duration |-> 0]

\* The records a ring can have when the handler is built: none, a phase
\* without a pending next phase, or a phase with the first of the ring's
\* next phases pending.
InitialRecords(graph) ==
  {NoRecord}
  \cup {Record(p, NoNext) : p \in {"AllGo", "Off"}}
  \cup {Record(p, Some([state |-> graph[p][1].id,
                         duration_until |-> graph[p][1].duration_until])) :
          p \in {q \in Phases : graph[q] # <<>>}}

Init ==
  /\ now = 0
  /\ start_ = now
  /\ handler = nullopt
  /\ ring_book = GetPhaseRing
  /\ provider \in {f \in [RingIds -> UNION {InitialRecords(ring_book[r]) : r \in RingIds}] :
                     \A r \in RingIds : f[r] \in InitialRecords(ring_book[r])}
  /\ read = NoReading
  /\ reset_at = now
  /\ lastOp = Op("none", "none")
  /\ tool = [name |-> "none"]
  /\ count = [calls |-> 0, advances |-> [r \in RingIds |-> 0]]
  /\ twin = [last_elapsed_time_ |-> 0, returned_early |-> FALSE]
  /\ passes = [last |-> NoReading, before |-> NoReading]
  /\ printed = [result |-> "none", phases |-> [r \in RingIds |-> NotRead]]

\* The clock advances.
Tick ==
  /\ now < MaxClock
  /\ now' = now + 1
  /\ UNCHANGED <<start_, handler, ring_book, provider, read, reset_at, lastOp, tool, count, twin, passes, printed>>

\* Timer::Reset().
Reset ==
  /\ start_' = DoReset(now)
  /\ read' = NoReading
  /\ reset_at' = now
  /\ lastOp' = [Op("Reset", "ok") EXCEPT !.at = now]
  /\ UNCHANGED <<now, handler, ring_book, provider, tool, count, twin, passes, printed>>

\* A caller reads Timer::Elapsed().
ElapsedCall ==
  /\ read' = Some(Elapsed(now, start_))
  /\ lastOp' = [Op("Elapsed", "ok") EXCEPT
                  !.at = now, !.reading = read', !.prevRead = read]
  /\ UNCHANGED <<now, start_, handler, ring_book, provider, reset_at, tool, count, twin, passes, printed>>

\* A caller constructs the handler.
Construct ==
  /\ ~has_value(handler)
  /\ \E timer \in {NULL, "timer"}, road_network \in {NULL, "road_network"},
        phase_duration \in (-MaxDuration)..MaxDuration :
       LET made == FixedPhaseIterationHandler(timer, road_network, phase_duration) IN
         /\ handler' = IF made.result = "ok" THEN Some(made.object) ELSE nullopt
         /\ lastOp' = [Op("Construct", made.result) EXCEPT
                         !.timer = timer, !.road_network = road_network,
                         !.phase_duration = phase_duration]
  /\ UNCHANGED <<now, start_, ring_book, provider, read, reset_at, tool, count, twin, passes, printed>>

\* A caller builds the handler through the factory, as Main() does.
Create ==
  /\ ~has_value(handler)
  /\ \E type \in DynamicEnvironmentHandlerType,
        timer \in {NULL, "timer"}, road_network \in {NULL, "road_network"},
        phase_duration \in (-MaxDuration)..MaxDuration :
       LET made == CreateDynamicEnvironmentHandler(type, timer, road_network, phase_duration) IN
         /\ handler' = IF made.result = "ok" THEN Some(made.object) ELSE nullopt
         /\ lastOp' = [Op("Create", made.result) EXCEPT
                         !.type = type,
                         !.timer = timer, !.road_network = road_network,
                         !.phase_duration = phase_duration]
  /\ UNCHANGED <<now, start_, ring_book, provider, read, reset_at, tool, count, twin, passes, printed>>

\* FixedPhaseIterationHandler::Update(), the early return of lines 10-12.
UpdateNoOp ==
  /\ has_value(handler)
  /\ LET elapsed == Elapsed(now, start_)
         this == value(handler)
     IN
       /\ ~ThresholdCrossed(elapsed, this.last_elapsed_time_, Threshold(this, provider))
       /\ lastOp' = [Op("Update", "noop") EXCEPT
                       !.at = now, !.reading = Some(elapsed),
                       !.prevProvider = provider,
                       !.prevLast = this.last_elapsed_time_]
  /\ UNCHANGED <<now, start_, handler, ring_book, provider, read, reset_at, tool>>

\* FixedPhaseIterationHandler::Update(), lines 10-29 past the early return:
\* the timer is read a second time for last_elapsed_time_ (the clock may have
\* moved on), then the rings are visited.
UpdateAdvance ==
  /\ has_value(handler)
  /\ LET elapsed == Elapsed(now, start_)
         this == value(handler)
     IN
       /\ ThresholdCrossed(elapsed, this.last_elapsed_time_, Threshold(this, provider))
       /\ \E dt \in 0..MaxCallTicks :
            /\ now + dt <= MaxClock
            /\ now' = now + dt
            /\ LET elapsed2 == Elapsed(now + dt, start_) IN
                 /\ \E out \in RingLoop(ring_book, 1, provider, <<>>) :
                      /\ handler' = Some(AssignLastElapsedTime(this, elapsed2, out))
                      /\ provider' = Commit(provider, out)
                      /\ lastOp' = [Op("Update", out.result) EXCEPT
                                      !.at = now, !.reading = Some(elapsed), !.reading2 = Some(elapsed2),
                                      !.failedAt = out.failedAt, !.sets = out.sets,
                                      !.prevProvider = provider,
                                      !.prevLast = this.last_elapsed_time_]
  /\ UNCHANGED <<start_, ring_book, read, reset_at, tool>>

\* FixedPhaseIterationHandler::Update().
Update ==
  /\ UpdateNoOp \/ UpdateAdvance
  /\ UNCHANGED <<count, twin, passes, printed>>

\* The count after a call of Update() that left `op` as its record: a call
\* past the early return is one more call, and each SetPhase it made is one
\* more advance of that ring.
Counted(c, op) ==
  IF op.result = "noop" THEN c
  ELSE [calls |-> c.calls + 1,
        advances |-> [r \in RingIds |->
           c.advances[r] + Cardinality({k \in DOMAIN op.sets : op.sets[k] = r})]]

\* FixedPhaseIterationHandler::Update(), with its calls and SetPhase calls
\* counted, up to MaxCalls calls past the early return.
UpdateCounted ==
  /\ UpdateNoOp \/ UpdateAdvance
  /\ count' = Counted(count, lastOp')
  /\ count'.calls <= MaxCalls
  /\ UNCHANGED <<twin, passes, printed>>

\* Update() in the two runs, called at the same instants.  The second run
\* reads what the first run's call read from the timer; having gone past the
\* early return in the same calls so far, its records hold the phases of the
\* first run's records, with its own durations.
UpdateTwin ==
  /\ UpdateNoOp \/ UpdateAdvance
  /\ LET this == [value(handler) EXCEPT !.last_elapsed_time_ = twin.last_elapsed_time_]
         elapsed == value(lastOp'.reading)
         elapsed2 == IF has_value(lastOp'.reading2) THEN value(lastOp'.reading2) ELSE elapsed
     IN IF ThresholdCrossed(elapsed, this.last_elapsed_time_,
                            Threshold(this, TwinProvider(provider)))
          THEN twin' = [last_elapsed_time_ |-> elapsed2, returned_early |-> FALSE]
          ELSE twin' = [twin EXCEPT !.returned_early = TRUE]
  /\ UNCHANGED <<count, passes, printed>>

\* The readings after a call of Update() that left `op` as its record: a
\* call past the early return puts its reading of line 10 in front.
Kept(p, op) ==
  IF op.result = "noop" THEN p ELSE [last |-> op.reading, before |-> p.last]

\* FixedPhaseIterationHandler::Update(), with the readings of its calls past
\* the early return kept.
UpdateSpaced ==
  /\ UpdateNoOp \/ UpdateAdvance
  /\ passes' = Kept(passes, lastOp')
  /\ UNCHANGED <<count, twin, printed>>

\* The variables of the timer, the handler and the road network.
handler_vars == <<now, start_, handler, ring_book, provider, read, reset_at, lastOp, count, twin, passes, printed>>

\* A caller converts a backend name, as every application's Main() does.
CallStringToMaliputImplementation ==
  /\ \E name \in BackendNames :
       tool' = [name |-> "StringToMaliputImplementation", maliput_impl |-> name,
                out |-> StringToMaliputImplementation(name)]
  /\ UNCHANGED handler_vars

\* A caller converts a MaliputImplementation to its name.
CallMaliputImplementationToString ==
  /\ \E impl \in ImplementationValues :
       tool' = [name |-> "MaliputImplementationToString", maliput_impl |-> impl,
                out |-> MaliputImplementationToString(impl)]
  /\ UNCHANGED handler_vars

CallCreateDragwayRoadNetwork ==
  /\ \E properties \in DragwayBuildProperties :
       tool' = [name |-> "CreateDragwayRoadNetwork", build_properties |-> properties,
                out |-> CreateDragwayRoadNetwork(properties)]
  /\ UNCHANGED handler_vars

CallCreateMultilaneRoadNetwork ==
  /\ \E properties \in MultilaneBuildProperties, load \in LoaderOutcomes :
       tool' = [name |-> "CreateMultilaneRoadNetwork", build_properties |-> properties,
                out |-> CreateMultilaneRoadNetwork(properties, load)]
  /\ UNCHANGED handler_vars

CallCreateMalidriveRoadNetwork ==
  /\ \E properties \in MalidriveBuildProperties, load \in LoaderOutcomes :
       tool' = [name |-> "CreateMalidriveRoadNetwork", build_properties |-> properties,
                out |-> CreateMalidriveRoadNetwork(properties, load)]
  /\ UNCHANGED handler_vars

\* A caller loads a road network, as every application's Main() does.
CallLoadRoadNetwork ==
  /\ \E impl \in ImplementationValues, dragway \in DragwayBuildProperties,
        multilane \in MultilaneBuildProperties, malidrive \in MalidriveBuildProperties,
        load \in LoaderOutcomes :
       tool' = [name |-> "LoadRoadNetwork", maliput_implementation |-> impl,
                dragway_build_properties |-> dragway,
                multilane_build_properties |-> multilane,
                malidrive_build_properties |-> malidrive,
                out |-> LoadRoadNetwork(impl, dragway, multilane, malidrive, load)]
  /\ UNCHANGED handler_vars

Next == Tick \/ Reset \/ Construct \/ Update

Spec == Init /\ [][Next]_vars

\* The handler built through the factory and then left running, as in Main().
FactoryNext == Tick \/ Create \/ Update

SpecFactory == Init /\ [][FactoryNext]_vars

\* The timer alone, read by a caller.
TimerNext == Tick \/ Reset \/ ElapsedCall

SpecTimer == Init /\ [][TimerNext]_vars

\* The handler with its advances counted, on a timer that is started once
\* and then left running, as in Main().
CountNext == Tick \/ Construct \/ UpdateCounted

SpecCount == Init /\ [][CountNext]_vars

\* Main()'s loop, lines 118-121, sleeps and then calls Update().  The timer
\* is started together with the handler and never reset; the first poll is
\* made at any time after that, and every later poll PollPeriod milliseconds
\* after the one before it, so that the readings are PollPeriod apart.
PollTicks == PollPeriod * TicksPerMs
Polling == lastOp.name = "Update"
PollInstant == IF Polling THEN now = lastOp.at + PollTicks ELSE now > 0

\* The loop sleeps: the clock advances up to the next poll.
PollTick ==
  /\ has_value(handler)
  /\ Polling => now < lastOp.at + PollTicks
  /\ Tick

\* The loop calls Update().
PollUpdate ==
  /\ PollInstant
  /\ Update

PollNext == Create \/ PollTick \/ PollUpdate

\* Main(), line 124: GetPhase(phase_ring_id)->state.  The optional is
\* dereferenced unchecked; on an empty one that is undefined behaviour: the
\* read crashes or yields garbage.
CurrentPhaseId(phase_provider_result) ==
  IF has_value(phase_provider_result)
    THEN {value(phase_provider_result).state}
    ELSE {"<crash>", "<garbage>"}

\* Main(), lines 123-136: the loop over GetPhaseRings() reads the current
\* phase of each ring from the records `prov`; a crash ends it.  The set of
\* outcomes.
ReadPhases(prov) ==
  {[result |-> IF \E r \in RingIds : f[r] = "<crash>" THEN "crash" ELSE "ok",
    phases |-> [r \in RingIds |->
                  IF \E i \in DOMAIN GetPhaseRings :
                       /\ f[GetPhaseRings[i]] = "<crash>"
                       /\ \E j \in DOMAIN GetPhaseRings : j > i /\ GetPhaseRings[j] = r
                    THEN NotRead ELSE f[r]]] :
     f \in {g \in [RingIds -> Phases \cup {"<crash>", "<garbage>"}] :
              \A r \in RingIds : g[r] \in CurrentPhaseId(prov[r])}}

\* Main(), lines 118-136, one iteration after its sleep: Update() is called
\* once; an exception it throws is not caught and ends Main(); otherwise the
\* records are read.  A crash ends the loop too.
PollIteration ==
  /\ printed.result \in {"none", "ok"}
  /\ PollInstant
  /\ UpdateNoOp \/ UpdateAdvance
  /\ IF lastOp'.result \in {"noop", "advanced"}
       THEN printed' \in ReadPhases(provider')
       ELSE printed' = [result |-> "terminated", phases |-> [r \in RingIds |-> NotRead]]
  /\ UNCHANGED <<count, twin, passes>>

AppNext == Create \/ PollTick \/ PollIteration

SpecApp == Init /\ [][AppNext]_vars

SpecPoll == Init /\ [][PollNext]_vars

\* The clock of a run without end.  Update() reads the timer only in the
\* difference Elapsed() - last_elapsed_time_, so the clock and
\* last_elapsed_time_ are kept relative to an origin that is moved forward,
\* by the whole milliseconds of last_elapsed_time_, when the clock reaches
\* MaxClock: every step is one more tick of the real clock.  The record of
\* the last call, whose readings are relative to the origin of its time, is
\* dropped.
LiveTick ==
  /\ has_value(handler)
  /\ IF now < MaxClock
       THEN now' = now + 1 /\ UNCHANGED handler
       ELSE LET this == value(handler) IN
              /\ this.last_elapsed_time_ > 0
              /\ now' = now - this.last_elapsed_time_ * TicksPerMs + 1
              /\ handler' = Some([this EXCEPT !.last_elapsed_time_ = 0])
  /\ lastOp' = Op("LiveTick", "ok")
  /\ UNCHANGED <<start_, ring_book, provider, read, reset_at, tool, count, twin, passes, printed>>

\* Main() builds the handler.
Built_Handler == Create /\ has_value(handler')

LiveNext == Create \/ LiveTick \/ Update

\* Every ring has a provider record.
AllRecords == \A r \in RingIds : has_value(provider[r])

\* The road network was loaded with a record for every ring.
InitLive ==
  /\ Init
  /\ \A r \in RingIds : has_value(provider[r])

\* Main() builds the handler and then calls Update() again and again while
\* the clock runs on; the timer is never reset.
SpecLive ==
  /\ InitLive
  /\ [][LiveNext]_vars
  /\ WF_vars(Built_Handler)
  /\ WF_vars(LiveTick)
  /\ WF_vars(Update)

\* The handler with a timer that is never reset.
SpacedNext == Tick \/ Construct \/ UpdateSpaced

SpecSpaced == Init /\ [][SpacedNext]_vars

\* The clock advances while no handler is built yet.
EarlyTick ==
  /\ ~has_value(handler)
  /\ Tick

\* The handler is built at any time after the timer was started or reset,
\* and called at once, as in VerifyPhasesBeingIterated without its sleep: the
\* clock does not advance between the construction and the calls, only
\* during them.
FreshNext == EarlyTick \/ Reset \/ Construct \/ UpdateSpaced

SpecFresh == Init /\ [][FreshNext]_vars

\* Two runs of the handler side by side.
TwinNext == Tick \/ Construct \/ UpdateTwin

SpecTwin == Init /\ [][TwinNext]_vars

\* The functions of tools.h, called in any order.
ToolsNext ==
  \/ CallStringToMaliputImplementation
  \/ CallMaliputImplementationToString
  \/ CallCreateDragwayRoadNetwork
  \/ CallCreateMultilaneRoadNetwork
  \/ CallCreateMalidriveRoadNetwork
  \/ CallLoadRoadNetwork

SpecTools == Init /\ [][ToolsNext]_vars

\* ================================================================ claims
\* What the last Update() call saw and did.
IsUpdate == lastOp.name = "Update"
Reading == value(lastOp.reading)
Duration == value(handler).phase_duration_
LastElapsedTime == value(handler).last_elapsed_time_
Before(r) == lastOp.prevProvider[r]
HadRecord(r) == has_value(Before(r))
HadPending(r) == HadRecord(r) /\ has_value(value(Before(r)).next)
PendingPhase(r) == value(value(Before(r)).next).state
\* The pass of the last Update() got past the ring at position i.
Passed(i) == lastOp.failedAt = 0 \/ i < lastOp.failedAt
\* How many times the last Update() called SetPhase for ring r.
Times(r) == Cardinality({k \in DOMAIN lastOp.sets : lastOp.sets[k] = r})
Positions == DOMAIN GetPhaseRings
Errors == {"assertion_error", "out_of_range", "crash"}

C2_IdempotentNoOp ==
  (IsUpdate /\ Reading - lastOp.prevLast < Duration) =>
    /\ provider = lastOp.prevProvider
    /\ LastElapsedTime = lastOp.prevLast

\* A no-op Update() after an earlier advance, with a ring that has a phase
\* pending.
C2_Witness ==
  /\ IsUpdate
  /\ Duration > 0
  /\ lastOp.prevLast > 0
  /\ Reading - lastOp.prevLast >= 0
  /\ Reading - lastOp.prevLast < Duration
  /\ \E r \in RingIds : HadPending(r)

\* C3. Update() goes past its early return if and only if Elapsed() -
\* last_elapsed_time is strictly greater than phase_duration; at a difference
\* equal to phase_duration, or smaller (also negative), it is a no-op.
C3_StrictThreshold ==
  IsUpdate =>
    /\ (lastOp.result # "noop") <=> (Reading - lastOp.prevLast > Duration)
    /\ (Reading - lastOp.prevLast <= Duration) =>
         /\ provider = lastOp.prevProvider
         /\ LastElapsedTime = lastOp.prevLast

\* An Update() made at a difference of exactly phase_duration, with a ring
\* that has a phase pending: a no-op.
C3_Witness ==
  /\ IsUpdate
  /\ Duration > 0
  /\ Reading - lastOp.prevLast = Duration
  /\ lastOp.result = "noop"
  /\ \E r \in RingIds : HadPending(r)

\* C4. An Update() that crosses the threshold and completes without error has
\* advanced every ring that had a pending-next phase, each by exactly one
\* SetPhase, in that call.
C4_AllRingsAdvance ==
  (IsUpdate /\ lastOp.result = "advanced") =>
    \A r \in RingIds :
      HadPending(r) =>
        /\ value(provider[r]).state = PendingPhase(r)
        /\ Times(r) = 1

\* All three rings had a phase pending and all three records changed.
C4_Witness ==
  /\ IsUpdate
  /\ Duration > 0
  /\ lastOp.result = "advanced"
  /\ \A r \in RingIds : HadPending(r) /\ provider[r] # Before(r)

Unregistered == {i \in Positions : ~HadRecord(GetPhaseRings[i])}
FirstUnregistered == CHOOSE i \in Unregistered : \A j \in Unregistered : i <= j

\* C6 as stated: every Update() on a network with a ring that has no
\* provider record fails with an error (stated of handlers with a positive
\* phase_duration, which is all the claim needs to be refuted).
C6_EveryUpdateFails ==
  (IsUpdate /\ Duration > 0 /\ Unregistered # {}) => lastOp.result \in Errors

\* C6, amended: an Update() made when Elapsed() - last_elapsed_time >
\* phase_duration on a network with a ring that has no provider record fails:
\* with the precondition violation at the first such ring, unless it has
\* failed at a ring before it; no such ring is passed over or given a record.
\* An Update() made at a smaller difference returns without error and without
\* looking at the records.
C6_AdvancingUpdateFails ==
  (IsUpdate /\ Unregistered # {}) =>
    IF Reading - lastOp.prevLast > Duration
      THEN /\ lastOp.result \in Errors
           /\ lastOp.failedAt \in 1..FirstUnregistered
           /\ (lastOp.failedAt = FirstUnregistered) <=> (lastOp.result = "assertion_error")
           /\ \A i \in Unregistered :
                ~has_value(provider[GetPhaseRings[i]]) /\ Times(GetPhaseRings[i]) = 0
      ELSE /\ lastOp.result = "noop"
           /\ provider = lastOp.prevProvider

\* The last ring of the book has no record; the Update() fails at it.
C6_Witness ==
  /\ IsUpdate
  /\ Duration > 0
  /\ Unregistered = {3}
  /\ lastOp.result = "assertion_error"
  /\ lastOp.failedAt = 3

\* C7. Constructing a FixedPhaseIterationHandler with non-null timer and road
\* network succeeds for every phase_duration > 0 and fails with an assertion
\* error for every phase_duration <= 0, leaving no handler.
C7_DurationChecked ==
  (/\ lastOp.name = "Construct"
   /\ lastOp.timer # NULL
   /\ lastOp.road_network # NULL) =>
    /\ (lastOp.phase_duration > 0) =>
         (lastOp.result = "ok" /\ has_value(handler))
    /\ (lastOp.phase_duration <= 0) =>
         (lastOp.result = "assertion_error" /\ ~has_value(handler))

\* C8. Construction fails with an assertion error when the timer or the road
\* network is null and succeeds when both are non-null; a handler that exists
\* holds two non-null references.
C8_NonNullReferences ==
  /\ (lastOp.name = "Construct") =>
       /\ (lastOp.result = "assertion_error") <=>
            (lastOp.timer = NULL \/ lastOp.road_network = NULL)
       /\ (lastOp.result = "ok") <=>
            (lastOp.timer # NULL /\ lastOp.road_network # NULL)
       /\ has_value(handler) <=> (lastOp.result = "ok")
  /\ has_value(handler) =>
       /\ value(handler).timer_ # NULL
       /\ value(handler).road_network_ # NULL

\* A construction with a null timer and a road network: it fails.
C8_Witness ==
  /\ lastOp.name = "Construct"
  /\ lastOp.timer = NULL
  /\ lastOp.road_network # NULL
  /\ lastOp.result = "assertion_error"
  /\ ~has_value(handler)

\* C9. No rollback: when an advancing Update() fails at a ring without a
\* provider record, every ring before it in iteration order has been dealt
\* with and stays so (advanced by one SetPhase if it had a phase pending,
\* unchanged if not), and no ring from the failing one on is touched.
C9_NoRollback ==
  (IsUpdate /\ lastOp.result = "assertion_error") =>
    \A i \in Positions :
      LET r == GetPhaseRings[i] IN
        /\ (i < lastOp.failedAt /\ HadPending(r)) =>
             /\ value(provider[r]).state = PendingPhase(r)
             /\ Times(r) = 1
        /\ (i < lastOp.failedAt /\ ~HadPending(r)) =>
             provider[r] = Before(r)
        /\ (i >= lastOp.failedAt) =>
             /\ provider[r] = Before(r)
             /\ Times(r) = 0

\* The middle ring has no record: the first ring is advanced, the last ring,
\* which also had a phase pending, is not.
C9_Witness ==
  /\ IsUpdate
  /\ Duration > 0
  /\ lastOp.result = "assertion_error"
  /\ lastOp.failedAt = 2
  /\ HadPending("ringA") /\ provider["ringA"] # Before("ringA")
  /\ HadPending("ringC") /\ provider["ringC"] = Before("ringC")

\* C10. Timer monotonicity: the clock being monotonic, an Elapsed() that
\* follows another with no Reset() between them returns at least what the
\* earlier one returned.
C10_ElapsedMonotonic ==
  (lastOp.name = "Elapsed" /\ has_value(lastOp.prevRead)) =>
    value(lastOp.reading) >= value(lastOp.prevRead)

\* Two readings without a Reset() between them, the later one larger, taken
\* from a timer that was reset at some time.
C10_Witness ==
  /\ lastOp.name = "Elapsed"
  /\ has_value(lastOp.prevRead)
  /\ value(lastOp.prevRead) > 0
  /\ value(lastOp.reading) > value(lastOp.prevRead)
  /\ start_ > 0

\* C11. Timer rebase: an Elapsed() read at the clock time at which the timer
\* was built or last Reset() returns 0, and an Elapsed() read at clock time t
\* after the construction or Reset() at clock time r returns t - r truncated
\* to whole milliseconds, whatever the timer showed before the Reset().
C11_TimerRebase ==
  lastOp.name = "Elapsed" =>
    /\ (lastOp.at = reset_at => value(lastOp.reading) = 0)
    /\ \E whole \in 0..MaxClock :
         /\ whole * TicksPerMs <= lastOp.at - reset_at
         /\ lastOp.at - reset_at < (whole + 1) * TicksPerMs
         /\ value(lastOp.reading) = whole

\* A reading taken one millisecond and a fraction after a Reset() that was
\* made when the timer already showed a millisecond or more.
C11_Witness ==
  /\ lastOp.name = "Elapsed"
  /\ reset_at >= TicksPerMs
  /\ lastOp.at - reset_at = TicksPerMs + 1
  /\ value(lastOp.reading) = 1

\* C12. CreateDynamicEnvironmentHandler(kFixedPhaseIterationHandler, timer,
\* road_network, phase_duration) returns a handler holding exactly the
\* arguments it was given when both pointers are non-null and phase_duration
\* is positive, fails with an assertion error when a pointer is null or
\* phase_duration is not positive, and fails for any other type value.
C12_FactoryForwards ==
  lastOp.name = "Create" =>
    IF lastOp.type = kFixedPhaseIterationHandler
      THEN IF /\ lastOp.timer # NULL
              /\ lastOp.road_network # NULL
              /\ lastOp.phase_duration > 0
             THEN /\ lastOp.result = "ok"
                  /\ handler = Some([timer_ |-> lastOp.timer,
                                      road_network_ |-> lastOp.road_network,
                                      phase_duration_ |-> lastOp.phase_duration,
                                      last_elapsed_time_ |-> 0])
             ELSE lastOp.result = "assertion_error" /\ handler = nullopt
      ELSE lastOp.result = "assertion_error" /\ handler = nullopt

\* What the last call of a function of tools.h was given and returned.
ToolCalled(name) == tool.name = name
ImplementationNames == {"dragway", "multilane", "malidrive"}
CreatorOf(impl) ==
  CASE impl = "kDragway" -> "CreateDragwayRoadNetwork"
    [] impl = "kMultilane" -> "CreateMultilaneRoadNetwork"
    [] impl = "kMalidrive" -> "CreateMalidriveRoadNetwork"
PropertiesFor(impl) ==
  CASE impl = "kDragway" -> tool.dragway_build_properties
    [] impl = "kMultilane" -> tool.multilane_build_properties
    [] impl = "kMalidrive" -> tool.malidrive_build_properties
FileOf(impl) ==
  CASE impl = "kDragway" -> nullopt
    [] impl = "kMultilane" -> Some(tool.multilane_build_properties.yaml_file)
    [] impl = "kMalidrive" -> Some(tool.malidrive_build_properties.xodr_file_path)

\* C13. LoadRoadNetwork hands the call to the Create...RoadNetwork function
\* of the backend that maliput_implementation names, with that backend's
\* build properties and no others, and fails without building anything for a
\* value that is not kDragway, kMultilane or kMalidrive.
\* StringToMaliputImplementation succeeds exactly on dragway, multilane and
\* malidrive and fails on every other string, and on those three names it
\* and MaliputImplementationToString are inverses of each other.
C13_BackendSelection ==
  /\ ToolCalled("LoadRoadNetwork") =>
       LET impl == tool.maliput_implementation
           out == tool.out
       IN IF impl \in {"kDragway", "kMultilane", "kMalidrive"}
            THEN /\ out.built_by = CreatorOf(impl)
                 /\ out.built_from = PropertiesFor(impl)
                 /\ out.loaded \in {nullopt, FileOf(impl)}
            ELSE out.result = "abort" /\ out.built_by = "none"
  /\ ToolCalled("StringToMaliputImplementation") =>
       IF tool.maliput_impl \in ImplementationNames
         THEN /\ tool.out.result = "ok"
              /\ tool.out.value \in {"kDragway", "kMultilane", "kMalidrive"}
              /\ MaliputImplementationToString(tool.out.value) =
                   [result |-> "ok", value |-> tool.maliput_impl]
         ELSE tool.out.result = "abort"
  /\ (ToolCalled("MaliputImplementationToString")
        /\ tool.maliput_impl \in {"kDragway", "kMultilane", "kMalidrive"}) =>
       /\ tool.out.result = "ok"
       /\ tool.out.value \in ImplementationNames
       /\ StringToMaliputImplementation(tool.out.value) =
            [result |-> "ok", value |-> tool.maliput_impl]

\* LoadRoadNetwork asked for malidrive with properties of all three backends
\* at hand, the multilane and malidrive files being different ones.
C13_Witness ==
  /\ ToolCalled("LoadRoadNetwork")
  /\ tool.maliput_implementation = "kMalidrive"
  /\ tool.multilane_build_properties.yaml_file = "a"
  /\ tool.malidrive_build_properties.xodr_file_path = "b"
  /\ tool.out.result = "ok"
  /\ tool.out.built_by = "CreateMalidriveRoadNetwork"
  /\ tool.out.loaded = Some("b")

\* C14. CreateMultilaneRoadNetwork with an empty yaml_file, and
\* CreateMalidriveRoadNetwork with an empty xodr_file_path, fail on the check
\* of the path, no loader having been handed a file.
C14_EmptyPathRejected ==
  /\ (ToolCalled("CreateMultilaneRoadNetwork")
        /\ tool.build_properties.yaml_file = "") =>
       tool.out.result \in {"abort", "assertion_error"} /\ tool.out.loaded = nullopt
  /\ (ToolCalled("CreateMalidriveRoadNetwork")
        /\ tool.build_properties.xodr_file_path = "") =>
       tool.out.result \in {"abort", "assertion_error"} /\ tool.out.loaded = nullopt

\* C15. An Update() that goes past its early return stores in
\* last_elapsed_time the timer reading that it compared against the
\* threshold, whether or not the clock advances during the call.
C15_SingleReading ==
  (IsUpdate /\ lastOp.result # "noop" /\ Duration > 0) =>
    /\ lastOp.reading2 = lastOp.reading
    /\ LastElapsedTime = Reading

\* C16. When the list of next phases of the phase a ring enters has more
\* than one entry, an advancing Update() makes the entry at index 0 the
\* ring's pending-next phase, with that entry's duration_until, and none of
\* the other entries; nothing else about the ring enters the choice.
C16_FirstEntryOnly ==
  IsUpdate =>
    \A i \in Positions :
      LET r == GetPhaseRings[i] IN
        (lastOp.result # "noop" /\ Passed(i) /\ HadPending(r)) =>
          LET next_phases == GetNextPhases(ring_book[r], PendingPhase(r)) IN
            Len(next_phases) > 1 =>
              /\ provider[r] =
                   Record(PendingPhase(r),
                          Some([state |-> next_phases[1].id,
                                duration_until |-> next_phases[1].duration_until]))
              /\ \A k \in 2..Len(next_phases) :
                   value(value(provider[r]).next).state # next_phases[k].id

\* The branching ring, pending AllGo after AllStop, enters AllGo, whose list
\* is Off then AllStop: Off becomes the pending-next phase.
C16_Witness ==
  /\ IsUpdate /\ lastOp.result # "noop" /\ Passed(2)
  /\ Duration > 0
  /\ Before("ringB") = Record("AllStop", Some([state |-> "AllGo", duration_until |-> Some(60)]))
  /\ Len(GetNextPhases(ring_book["ringB"], "AllGo")) = 2
  /\ provider["ringB"] = Record("AllGo", Some([state |-> "Off", duration_until |-> NoDuration]))

\* C17. No catch-up: one Update() call, however long after the last
\* advance it is made, calls SetPhase at most once for a ring and leaves the
\* ring either as it was or in the phase that was pending, one edge on; and
\* the number of advances of a ring never exceeds the number of Update()
\* calls that went past the early return.
C17_NoCatchUp ==
  /\ \A r \in RingIds : count.advances[r] <= count.calls
  /\ IsUpdate =>
       \A r \in RingIds :
         /\ Times(r) <= 1
         /\ provider[r] # Before(r) =>
              /\ HadPending(r)
              /\ value(provider[r]).state = PendingPhase(r)

\* The second advancing Update(), made two phase_durations after the first:
\* the cycle ring is back in AllGo, having advanced once in each call.
C17_Witness ==
  /\ IsUpdate /\ lastOp.result = "advanced"
  /\ Duration > 0
  /\ Reading - lastOp.prevLast >= 2 * Duration
  /\ count.calls = 2
  /\ count.advances["ringA"] = 2
  /\ value(Before("ringA")).state = "AllStop"
  /\ value(provider["ringA"]).state = "AllGo"

\* C18. The decision to advance depends only on the timer reading,
\* last_elapsed_time and phase_duration: a second run that is given the same
\* timer readings and the same phase_duration, with other duration_until
\* values in its records, goes past the early return in exactly the same
\* Update() calls as the first and keeps the same last_elapsed_time.
C18_DurationUntilNotRead ==
  /\ has_value(handler) => twin.last_elapsed_time_ = LastElapsedTime
  /\ IsUpdate => (lastOp.result = "noop" <=> twin.returned_early)

\* Both runs go past the early return in the same call, the pending-next
\* phase of the cycle ring having a duration_until of 30 in one run and none
\* in the other.
C18_Witness ==
  /\ IsUpdate /\ lastOp.result = "advanced" /\ ~twin.returned_early
  /\ Duration > 0
  /\ Before("ringA") = Record("AllGo", Some([state |-> "AllStop", duration_until |-> Some(30)]))
  /\ TwinProvider(lastOp.prevProvider)["ringA"] =
       Record("AllGo", Some([state |-> "AllStop", duration_until |-> NoDuration]))

\* C19. Bounded drift: Update() being polled at timer readings PollPeriod
\* apart on a timer that is never reset, a poll made after an advance was
\* recorded at last_elapsed_time = L goes past the early return exactly when
\* its reading exceeds L + phase_duration, so the next advance is at the first
\* such poll, and the reading of that poll is at most
\* L + phase_duration + PollPeriod.
C19_BoundedDrift ==
  (IsUpdate /\ lastOp.prevLast > 0) =>
    /\ lastOp.result # "noop" <=> Reading > lastOp.prevLast + Duration
    /\ lastOp.result # "noop" => Reading <= lastOp.prevLast + Duration + PollPeriod

\* The same, for the handlers whose phase_duration is not negative.
C19_NonNegativeDuration ==
  (IsUpdate /\ Duration >= 0) => C19_BoundedDrift

\* The rings whose phases form the cycle AllGo -> AllStop -> AllGo.
CycleRings == {r \in RingIds : GetPhaseRing[r] = CycleRing}
InPhase(r, p) == has_value(provider[r]) /\ value(provider[r]).state = p
Pending(r) == has_value(provider[r]) /\ has_value(value(provider[r]).next)
\* No ring before r in the iteration order can enter a phase without next
\* phases: each is a cycle ring or has no pending-next phase.
ReachedAlways(r) ==
  \A i, j \in Positions :
    (i < j /\ GetPhaseRings[j] = r) =>
      (GetPhaseRings[i] \in CycleRings \/ ~Pending(GetPhaseRings[i]))

PositionOf(r) == CHOOSE i \in Positions : GetPhaseRings[i] = r

\* C21. Every Update() call ends, as a no-op, a completed pass or a failed
\* pass; its pass goes over the rings once in the order of the ring book:
\* SetPhase is called at most once per ring, in the order of the book, at
\* most as many times as there are rings, and never for a ring at or behind
\* the one where a throwing pass stopped.
C21_SinglePass ==
  IsUpdate =>
    /\ lastOp.result \in {"noop", "advanced"} \cup Errors
    /\ lastOp.result = "noop" => lastOp.sets = <<>>
    /\ Len(lastOp.sets) <= Len(GetPhaseRings)
    /\ \A r \in RingIds : Times(r) <= 1
    /\ \A j, k \in DOMAIN lastOp.sets :
         j < k => PositionOf(lastOp.sets[j]) < PositionOf(lastOp.sets[k])
    /\ lastOp.failedAt \in 0..Len(GetPhaseRings)
    /\ \A k \in DOMAIN lastOp.sets :
         lastOp.failedAt # 0 => PositionOf(lastOp.sets[k]) < lastOp.failedAt

\* A pass that called SetPhase for every ring, once each.
C21_Witness ==
  /\ IsUpdate /\ lastOp.result = "advanced"
  /\ Duration > 0
  /\ lastOp.sets = GetPhaseRings

\* What Update() leaves alone in a step: the timer, the handler's pointers
\* and phase_duration, the ring book, and which rings have a record; the
\* records that differ are those of rings SetPhase was called for.
UpdateFrame ==
  /\ start_' = start_
  /\ reset_at' = reset_at
  /\ read' = read
  /\ ring_book' = ring_book
  /\ has_value(handler')
  /\ value(handler').timer_ = value(handler).timer_
  /\ value(handler').road_network_ = value(handler).road_network_
  /\ value(handler').phase_duration_ = value(handler).phase_duration_
  /\ \A r \in RingIds : has_value(provider'[r]) <=> has_value(provider[r])
  /\ \A r \in RingIds :
       provider'[r] # provider[r] =>
         /\ r \in DOMAIN ring_book
         /\ \E k \in DOMAIN lastOp'.sets : lastOp'.sets[k] = r

\* The steps in which a call of Update() changes anything but the clock:
\* no other operation leaves or keeps "Update" as the last call while it
\* changes the call's record, the provider or the handler.
UpdateStep ==
  /\ lastOp'.name = "Update"
  /\ lastOp' # lastOp \/ provider' # provider \/ handler' # handler

\* C22. Frame of Update(): a call changes only provider records of rings of
\* the ring book and last_elapsed_time; it does not reset or change the
\* timer, phase_duration, the rings or their next-phase graphs, and it
\* neither adds nor removes a provider record.
C22_Frame == [][UpdateStep => UpdateFrame]_vars

\* An Update() that changed a record and last_elapsed_time.
C22_Witness ==
  /\ IsUpdate /\ lastOp.result = "advanced"
  /\ Duration > 0
  /\ provider # lastOp.prevProvider
  /\ LastElapsedTime # lastOp.prevLast
  /\ start_ = 0 /\ ring_book = GetPhaseRing

\* C23. Minimum spacing, with a timer that is never reset: the readings
\* that two consecutive Update() calls past the early return compared
\* against the threshold differ by more than phase_duration, and no call of
\* Update() makes last_elapsed_time smaller.
C23_MinimumSpacing ==
  /\ IsUpdate => LastElapsedTime >= lastOp.prevLast
  /\ (has_value(passes.last) /\ has_value(passes.before)) =>
       value(passes.last) - value(passes.before) > Duration

\* Two calls past the early return, the second one the last call made, with
\* a positive phase_duration.
C23_Witness ==
  /\ IsUpdate /\ lastOp.result = "advanced"
  /\ Duration > 0
  /\ has_value(passes.before)
  /\ passes.last = lastOp.reading
  /\ LastElapsedTime > lastOp.prevLast

\* The last call was an Update() before which no Update() of this handler
\* had gone past the early return: the first call, or one after no-ops only.
NonePassedBefore ==
  /\ IsUpdate
  /\ passes.before = NoReading
  /\ lastOp.result = "noop" => passes.last = NoReading

\* C24. last_elapsed_time is 0 when the handler has been constructed,
\* whatever the timer reads then; the first Update() after construction, made
\* less than phase_duration after it, goes past the early return if and only
\* if the timer's reading, measured from the timer's last Reset() (or its
\* start), is greater than phase_duration.
C24_StartsAtZero ==
  /\ (lastOp.name = "Construct" /\ lastOp.result = "ok") => LastElapsedTime = 0
  /\ NonePassedBefore =>
       /\ lastOp.prevLast = 0
       /\ Reading = DoElapsed(lastOp.at, reset_at)
       /\ (lastOp.result # "noop") <=> (Reading > Duration)

\* The timer was reset, ran for more than a positive phase_duration, and the
\* handler built then was updated at once: the call advanced a ring.
C24_Witness ==
  /\ NonePassedBefore
  /\ lastOp.result = "advanced"
  /\ Duration > 0
  /\ reset_at > 0
  /\ Reading > Duration
  /\ provider # lastOp.prevProvider

\* The steps that are a call of Timer::Reset().
ResetStep ==
  /\ lastOp'.name = "Reset"
  /\ lastOp' # lastOp \/ start_' # start_

\* C25. Timer::Reset() leaves the handler as it is, last_elapsed_time
\* included, and so does an Update() that returns early; an Update() goes
\* past the early return only at a reading greater than last_elapsed_time +
\* phase_duration, so after an advance recorded at L and a Reset() none does
\* before the timer reads more than L + phase_duration.
C25_NotRebased ==
  [][/\ ResetStep => handler' = handler
     /\ (UpdateStep /\ lastOp'.result = "noop") => handler' = handler
     /\ (UpdateStep /\ lastOp'.result # "noop") =>
          value(lastOp'.reading) > value(handler).last_elapsed_time_
                                     + value(handler).phase_duration_]_vars

\* After an advance recorded at L the timer was reset (it reads less than
\* L) and has run for phase_duration again; the Update() made then returns
\* early, and the reading still has to grow by more than phase_duration
\* before one advances.
C25_Witness ==
  /\ IsUpdate /\ lastOp.result = "noop"
  /\ Duration > 0
  /\ reset_at > 0 /\ start_ = reset_at
  /\ Reading < lastOp.prevLast
  /\ Reading >= Duration
  /\ LastElapsedTime = lastOp.prevLast
  /\ LastElapsedTime + Duration - Reading > Duration

\* C26. An Update() that fails at a ring without a provider record has
\* recorded its second timer reading in last_elapsed_time and has left the
\* records of that ring and of the rings behind it as they were; an Update()
\* that follows it with a reading at most phase_duration greater than the
\* one the failed call compared returns early: no error, nothing changed.
C26_FailureRecordsTime ==
  [][/\ (UpdateStep /\ lastOp'.result = "assertion_error") =>
          /\ ~has_value(provider[GetPhaseRings[lastOp'.failedAt]])
          /\ value(handler').last_elapsed_time_ = value(lastOp'.reading2)
          /\ \A i \in Positions :
               i >= lastOp'.failedAt =>
                 provider'[GetPhaseRings[i]] = provider[GetPhaseRings[i]]
     /\ (/\ IsUpdate /\ lastOp.result = "assertion_error"
         /\ UpdateStep
         /\ value(lastOp'.reading) - value(lastOp.reading) <= Duration) =>
          /\ lastOp'.result = "noop"
          /\ provider' = provider
          /\ handler' = handler]_vars

\* The first ring has no record, so the pass of the earlier call that set
\* last_elapsed_time failed there, with a phase pending for the ring behind
\* it; the call made now, within phase_duration, has returned early.
C26_Witness ==
  /\ IsUpdate /\ lastOp.result = "noop"
  /\ Duration > 0
  /\ provider[GetPhaseRings[1]] = NoRecord
  /\ lastOp.prevLast > 0
  /\ Reading - lastOp.prevLast < Duration
  /\ HadPending(GetPhaseRings[2])
  /\ provider = lastOp.prevProvider

\* C27. Every ring for which SetPhase has been called at least once has a
\* record whose current phase is a phase of the ring and whose pending-next
\* phase is the first entry of the ring's GetNextPhases(current phase).
\* Stated for the handlers with a positive phase_duration.
C27_PendingIsFirstNext ==
  \A r \in RingIds :
    (count.advances[r] >= 1 /\ Duration > 0) =>
      /\ has_value(provider[r])
      /\ value(provider[r]).state \in DOMAIN ring_book[r]
      /\ LET next_phases == GetNextPhases(ring_book[r], value(provider[r]).state) IN
           /\ next_phases # <<>>
           /\ value(provider[r]).next =
                Some([state |-> Front(next_phases).id,
                      duration_until |-> Front(next_phases).duration_until])

\* The pass of the last Update() came to the ring at position i.
Reached(i) == lastOp.failedAt = 0 \/ i <= lastOp.failedAt

\* C28. Whenever the pass of an Update() comes to a ring with a pending-next
\* phase of that ring, the list GetNextPhases(pending-next phase), whose
\* first entry line 28 reads, is not empty.  Stated for the handlers with a
\* positive phase_duration.
C28_FrontOfNonEmpty ==
  (IsUpdate /\ lastOp.result # "noop" /\ Duration > 0) =>
    \A i \in Positions :
      LET r == GetPhaseRings[i] IN
        (/\ Reached(i)
         /\ HadPending(r)
         /\ PendingPhase(r) \in DOMAIN ring_book[r]) =>
          GetNextPhases(ring_book[r], PendingPhase(r)) # <<>>

\* The ring r has a record without a pending-next phase.
Settled(r) == has_value(provider[r]) /\ ~has_value(value(provider[r]).next)

\* C29. No step changes the record of a ring that has no pending-next
\* phase: once a ring is in that state, its current phase stays the same and
\* its pending-next phase stays empty, whatever Update() calls are made.
C29_SettledRingKept ==
  [][\A r \in RingIds : Settled(r) => provider'[r] = provider[r]]_vars

\* A second pass over the rings, in which a ring behind the first one was
\* advanced, has again left alone a ring that has no pending-next phase.
C29_Witness ==
  /\ IsUpdate /\ lastOp.result = "advanced"
  /\ Duration > 0
  /\ lastOp.prevLast > 0
  /\ \E r \in RingIds :
       /\ HadRecord(r) /\ ~HadPending(r)
       /\ Settled(r) /\ provider[r] = Before(r)
       /\ \E k \in DOMAIN lastOp.sets :
            PositionOf(lastOp.sets[k]) > PositionOf(r)

\* C30. In an iteration of Main()'s loop Update() is called once and, when
\* it returns, every ring's record is read after it; the record read is
\* present for each ring, also when Update() returned early.  Stated for the
\* handlers with a positive phase_duration.
C30_RecordsPresent ==
  (printed.result # "none" /\ Duration > 0) =>
    /\ IsUpdate
    /\ lastOp.result \in {"noop", "advanced"} =>
         /\ printed.result = "ok"
         /\ \A r \in RingIds :
              /\ has_value(provider[r])
              /\ printed.phases[r] = value(provider[r]).state

====
